---- MODULE Spec2Model ----
(***************************************************************************)
(* Model of VanillaDeepHedgingGym (src/gym.py): the rollout of _call, the  *)
(* bounded action transform _clip_actions and the feature assembler        *)
(* _features.                                                              *)
(*                                                                         *)
(* Floating-point numbers are modelled as fixed-point values in units of   *)
(* 1/Scale together with the IEEE special values NaN, +Inf and -Inf.       *)
(* Tensors are nested sequences: a [B,N] tensor is a sequence of B rows of *)
(* N numbers, a [B,T,N] tensor a sequence of B sequences of T rows.        *)
(***************************************************************************)
EXTENDS Integers, Sequences, FiniteSets, TLC

VARIABLES
    hard_clip,      \* self.hard_clip                       (gym.py:49)
    outer_clip,     \* self.outer_clip                      (gym.py:50)
    agent,          \* self.agent: [bound, is_recurrent]      (gym.py:56,75)
    utility,        \* self.utility / self.utility0 are bound (gym.py:57,76)
    pc,             \* position of _call: idle, loop, done, fault
    fault,          \* the error _call ended in, or "none"
    data,           \* the argument of _call, or <<>>
    features_per_step, \* first result of _features
    features_per_path, \* second result of _features
    pnl, cost, delta, action, actions, state, t,   \* locals of _call
    live_features,  \* the mapping last handed to the agent
    agent_out,      \* action, state_ = self.agent( live_features )
    steps,          \* per finished iteration: what the agent returned and
                    \* what _clip_actions made of it
    calls,          \* the data handed to self.utility and self.utility0
    result,         \* the returned bundle, or <<>>
    clip_args,      \* arguments of a direct _clip_actions call, or <<>>
    clip_ret        \* what that call produced, or <<>>

\* ------------------------------------------------------------------------
\* Floating point numbers (dh_dtype)
\* ------------------------------------------------------------------------

\* resolution of the fixed-point grid standing for dh_dtype
Scale == 1000

Fin(x)  == [k |-> "fin", v |-> x]
NaN     == [k |-> "nan", v |-> 0]
PosInf  == [k |-> "inf", v |-> 1]
NegInf  == [k |-> "inf", v |-> -1]
Zero    == Fin(0)
One     == Fin(Scale)

IsNaN(x)    == x.k = "nan"
IsInf(x)    == x.k = "inf"
IsFinite(x) == x.k = "fin"

Sgn(i) == IF i > 0 THEN 1 ELSE IF i < 0 THEN -1 ELSE 0
Abs(i) == IF i < 0 THEN -i ELSE i
\* integer quotient rounded toward zero
Quot(n, d) == Sgn(n) * Sgn(d) * (Abs(n) \div Abs(d))

FNeg(x) == IF IsNaN(x) THEN NaN ELSE [k |-> x.k, v |-> -x.v]
FAbs(x) == IF IsNaN(x) THEN NaN ELSE [k |-> x.k, v |-> Abs(x.v)]

FAdd(x, y) ==
    IF IsNaN(x) \/ IsNaN(y) THEN NaN
    ELSE IF IsInf(x) /\ IsInf(y) THEN (IF x.v = y.v THEN x ELSE NaN)
    ELSE IF IsInf(x) THEN x
    ELSE IF IsInf(y) THEN y
    ELSE Fin(x.v + y.v)

FSub(x, y) == FAdd(x, FNeg(y))

FMul(x, y) ==
    IF IsNaN(x) \/ IsNaN(y) THEN NaN
    ELSE IF IsInf(x) \/ IsInf(y)
         THEN (IF x.v = 0 \/ y.v = 0 THEN NaN
               ELSE [k |-> "inf", v |-> Sgn(x.v) * Sgn(y.v)])
    ELSE Fin(Quot(x.v * y.v, Scale))

FDiv(x, y) ==
    IF IsNaN(x) \/ IsNaN(y) THEN NaN
    ELSE IF IsInf(x) THEN (IF IsInf(y) THEN NaN
                           ELSE [k |-> "inf", v |-> x.v * (IF y.v < 0 THEN -1 ELSE 1)])
    ELSE IF IsInf(y) THEN Zero
    ELSE IF y.v = 0 THEN (IF x.v = 0 THEN NaN ELSE [k |-> "inf", v |-> Sgn(x.v)])
    ELSE Fin(Quot(x.v * Scale, y.v))

\* x < y; every comparison with NaN is false
FLess(x, y) ==
    IF IsNaN(x) \/ IsNaN(y) THEN FALSE
    ELSE IF IsInf(x) THEN x.v < 0 /\ ~(IsInf(y) /\ y.v < 0)
    ELSE IF IsInf(y) THEN y.v > 0
    ELSE x.v < y.v

FLeq(x, y) == ~IsNaN(x) /\ ~IsNaN(y) /\ ~FLess(y, x)

\* tf.minimum / tf.maximum: a NaN operand gives NaN (the kernels are Eigen's
\* scalar_min_op / scalar_max_op with NaN propagation)
FMin(x, y) == IF IsNaN(x) \/ IsNaN(y) THEN NaN ELSE IF FLess(y, x) THEN y ELSE x
FMax(x, y) == IF IsNaN(x) \/ IsNaN(y) THEN NaN ELSE IF FLess(x, y) THEN y ELSE x

\* ------------------------------------------------------------------------
\* tfp.bijectors.SoftClip( low=0., high=1., hinge_softness=1. )
\*   y = 1 - softplus( 1 - softplus(x) ) / softplus(1)
\* tabulated at x = -8, -7.75, ..., 9 (in 1/Scale) and interpolated linearly;
\* the value saturates at 0 below the table and at 1 above it.
\* ------------------------------------------------------------------------

SoftClipLow  == -8 * Scale
SoftClipStep == Scale \div 4
SoftClipTable ==
    << 0, 0, 0, 0, 1, 1, 1, 1, 1, 2, 2, 3, 4, 5, 6, 8, 10, 13, 16, 21, 27, 34,
       43, 55, 69, 87, 109, 135, 167, 204, 246, 294, 346, 403, 462, 523, 582,
       640, 693, 742, 786, 825, 857, 885, 908, 926, 942, 954, 964, 971, 978,
       982, 986, 989, 992, 993, 995, 996, 997, 998, 998, 999, 999, 999, 999,
       999, 1000, 1000, 1000 >>

softclip(x) ==
    IF IsNaN(x) THEN NaN
    ELSE IF IsInf(x) THEN (IF x.v > 0 THEN One ELSE Zero)
    ELSE LET off == x.v - SoftClipLow
             i   == off \div SoftClipStep
             r   == off % SoftClipStep
         IN  IF off < 0 THEN Zero
             ELSE IF i + 1 >= Len(SoftClipTable) THEN One
             ELSE Fin(SoftClipTable[i + 1]
                      + ((SoftClipTable[i + 2] - SoftClipTable[i + 1]) * r)
                        \div SoftClipStep)

\* ------------------------------------------------------------------------
\* Tensors
\* ------------------------------------------------------------------------

\* element [b,n] of a [B,N] tensor, a [1,N] tensor being broadcast along b
At(x, b, n) == x[IF Len(x) = 1 THEN 1 ELSE b][n]

AllFinite2(x) == \A b \in 1..Len(x) : \A n \in 1..Len(x[b]) : IsFinite(x[b][n])

\* ------------------------------------------------------------------------
\* _clip_actions
\* ------------------------------------------------------------------------

\* self.outer_clip_cut_off (default)
outer_clip_cut_off == 10

\* (variant: the two sign assertions left out)
BoundsAsserted_OrderOnly(lbnd_a, ubnd_a) ==
    \A b \in 1..Len(lbnd_a) : \A n \in 1..Len(lbnd_a[b]) :
        FLeq(lbnd_a[b][n], ubnd_a[b][n])

\* the three tf.debugging assertions guarding the body
BoundsAsserted(lbnd_a, ubnd_a) ==
    \A b \in 1..Len(lbnd_a) : \A n \in 1..Len(lbnd_a[b]) :
        /\ FLeq(lbnd_a[b][n], ubnd_a[b][n])
        /\ FLeq(Zero, ubnd_a[b][n])
        /\ FLeq(lbnd_a[b][n], Zero)

\* (variant: the two bounds taken in the wrong order)
HardClip_Swapped(a, l, u) == FMin(FMax(a, u), l)

HardClip(a, l, u) == FMax(FMin(a, u), l)

OuterClip(a, l, u) ==
    FMax(FMin(a, FMul(u, Fin(outer_clip_cut_off * Scale))),
         FMul(l, Fin(outer_clip_cut_off * Scale)))

SoftClipped(a, l, u) ==
    LET dbnd == FSub(u, l)
        rel0 == FDiv(FSub(a, l), dbnd)
        rel  == softclip(rel0)
    IN  IF FLess(Zero, dbnd) THEN FAdd(FMul(rel, dbnd), l) ELSE Zero

\* the value computed at one position
ClipElem(a, l, u) ==
    IF hard_clip THEN HardClip(a, l, u)
    ELSE SoftClipped(IF outer_clip THEN OuterClip(a, l, u) ELSE a, l, u)

\* [fault, act]: the clipped [B,N] tensor, or the error the call ends in
_clip_actions(actions_, lbnd_a, ubnd_a) ==
    IF ~BoundsAsserted(lbnd_a, ubnd_a)
    THEN [fault |-> "InvalidArgument: bounds", act |-> <<>>]
    ELSE LET act == [b \in 1..Len(lbnd_a) |->
                        [n \in 1..Len(lbnd_a[b]) |->
                            ClipElem(At(actions_, b, n), lbnd_a[b][n], ubnd_a[b][n])]]
         IN  IF ~hard_clip /\ ~AllFinite2(act)
             THEN [fault |-> "InvalidArgument: numerics", act |-> <<>>]
             ELSE [fault |-> "none", act |-> act]

AllFinite1(x) == \A b \in 1..Len(x) : IsFinite(x[b])

\* x[:,t,:] of a [B,T,N] value, t counted from 0
Slice(x, tt) == [b \in 1..Len(x) |-> x[b][tt + 1]]

\* tf.zeros_like of a [B] and of a [B,N] value
Zeros1(x) == [b \in 1..Len(x) |-> Zero]
Zeros2(x) == [b \in 1..Len(x) |-> [n \in 1..Len(x[b]) |-> Zero]]

Add2(x, y) == [b \in 1..Len(x) |-> [n \in 1..Len(x[b]) |-> FAdd(x[b][n], y[b][n])]]
Add1(x, y) == [b \in 1..Len(x) |-> FAdd(x[b], y[b])]
Sub1(x, y) == [b \in 1..Len(x) |-> FSub(x[b], y[b])]
Neg1(x)    == [b \in 1..Len(x) |-> FNeg(x[b])]
Abs2(x)    == [b \in 1..Len(x) |-> [n \in 1..Len(x[b]) |-> FAbs(x[b][n])]]
Mul2(x, y) == [b \in 1..Len(x) |-> [n \in 1..Len(x[b]) |-> FMul(x[b][n], y[b][n])]]
\* (variant: the factor 0. left out)
TimesZero1_Identity(x) == x

\* x * 0.
TimesZero1(x) == [b \in 1..Len(x) |-> FMul(x[b], Zero)]

RECURSIVE SumRow(_)
SumRow(r) == IF r = <<>> THEN Zero ELSE FAdd(SumRow(SubSeq(r, 1, Len(r) - 1)), r[Len(r)])
\* tf.reduce_sum( x, axis=1 ) of a [B,N] value
ReduceSum1(x) == [b \in 1..Len(x) |-> SumRow(x[b])]

\* ------------------------------------------------------------------------
\* Inputs of _call: data['market'] and data['features']
\* ------------------------------------------------------------------------

NB   == 2     \* batch size of the inputs
NI   == 2     \* number of hedging instruments of the inputs
MaxT == 2     \* largest number of time steps of the inputs

EmptyMap == [x \in {} |-> 0]

\* the end-to-end example: returns 1 on the first path, 2 on the second,
\* no trading cost, bounds [-1,1]
ExHedge(b, tt, n) == Fin(b * Scale)
ExCost(b, tt, n)  == Zero
ExLbnd(b, tt, n)  == Fin(-Scale)
ExUbnd(b, tt, n)  == One

\* a market that differs at every position; bounds are [0,0], [-1,1] or [-2,1]
VarHedge(b, tt, n) == Fin(Scale * (((b + 2 * tt + n) % 3) - 1))
VarCost(b, tt, n)  == Fin(Scale * ((tt + n) % 3))
VarLbnd(b, tt, n)  == Fin(-Scale * ((b + tt + n) % 3))
VarUbnd(b, tt, n)  == IF (b + tt + n) % 3 = 0 THEN Zero ELSE One

Payoff1(B) == [b \in 1..B |-> Fin((2 * b - 3) * Scale)]

\* the positions of a [NB,T,NI] tensor
Paths       == 1..NB
Instruments == 1..NI

ExampleMarket(T) ==
    [hedges |-> [shape |-> <<NB, T, NI>>,
                 val   |-> [b \in Paths |-> [tt \in 1..T |-> [n \in Instruments |->
                              ExHedge(b, tt, n)]]]],
     cost   |-> [shape |-> <<NB, T, NI>>,
                 val   |-> [b \in Paths |-> [tt \in 1..T |-> [n \in Instruments |->
                              ExCost(b, tt, n)]]]],
     lbnd_a |-> [shape |-> <<NB, T, NI>>,
                 val   |-> [b \in Paths |-> [tt \in 1..T |-> [n \in Instruments |->
                              ExLbnd(b, tt, n)]]]],
     ubnd_a |-> [shape |-> <<NB, T, NI>>,
                 val   |-> [b \in Paths |-> [tt \in 1..T |-> [n \in Instruments |->
                              ExUbnd(b, tt, n)]]]],
     payoff |-> [shape |-> <<NB>>, val |-> Payoff1(NB)]]

\* payoff arrives as [B,1]; a payoff is kept as its shape and its values in
\* row-major order
VariedMarket(T) ==
    [hedges |-> [shape |-> <<NB, T, NI>>,
                 val   |-> [b \in Paths |-> [tt \in 1..T |-> [n \in Instruments |->
                              VarHedge(b, tt, n)]]]],
     cost   |-> [shape |-> <<NB, T, NI>>,
                 val   |-> [b \in Paths |-> [tt \in 1..T |-> [n \in Instruments |->
                              VarCost(b, tt, n)]]]],
     lbnd_a |-> [shape |-> <<NB, T, NI>>,
                 val   |-> [b \in Paths |-> [tt \in 1..T |-> [n \in Instruments |->
                              VarLbnd(b, tt, n)]]]],
     ubnd_a |-> [shape |-> <<NB, T, NI>>,
                 val   |-> [b \in Paths |-> [tt \in 1..T |-> [n \in Instruments |->
                              VarUbnd(b, tt, n)]]]],
     payoff |-> [shape |-> <<NB, 1>>, val |-> Payoff1(NB)]]

\* the last step's bounds of the last path are [2,1]
BadLbnd(T) ==
    [b \in 1..NB |-> [tt \in 1..T |-> [n \in 1..NI |->
        IF b = NB /\ tt = T /\ n = 1 THEN Fin(2 * Scale) ELSE Fin(-Scale)]]]

NoFeatures == [per_step |-> EmptyMap, per_path |-> EmptyMap]

\* the end-to-end example in its own geometry: 2 paths, 3 steps, 1 instrument,
\* returns 1 on the first path and 2 on the second, no cost, bounds [-1,1]
EndToEndExample ==
    [market |->
        [hedges |-> [shape |-> <<2, 3, 1>>,
                     val   |-> [b \in 1..2 |-> [tt \in 1..3 |-> [n \in 1..1 |->
                                  ExHedge(b, tt, n)]]]],
         cost   |-> [shape |-> <<2, 3, 1>>,
                     val   |-> [b \in 1..2 |-> [tt \in 1..3 |-> [n \in 1..1 |->
                                  ExCost(b, tt, n)]]]],
         lbnd_a |-> [shape |-> <<2, 3, 1>>,
                     val   |-> [b \in 1..2 |-> [tt \in 1..3 |-> [n \in 1..1 |->
                                  ExLbnd(b, tt, n)]]]],
         ubnd_a |-> [shape |-> <<2, 3, 1>>,
                     val   |-> [b \in 1..2 |-> [tt \in 1..3 |-> [n \in 1..1 |->
                                  ExUbnd(b, tt, n)]]]],
         payoff |-> [shape |-> <<2>>, val |-> Payoff1(2)]],
     features |-> NoFeatures]

Inputs ==
    {EndToEndExample} \cup
    UNION { {
      \* well-formed inputs
      [market |-> ExampleMarket(T), features |-> NoFeatures],
      [market |-> VariedMarket(T),
       features |-> [per_step |-> [f \in {"time_left"} |-> [shape |-> <<NB, T>>]],
                     per_path |-> EmptyMap]],
      [market |-> ExampleMarket(T),
       features |-> [per_step |-> [f \in {"pnl", "delta"} |-> [shape |-> <<NB, T, 1>>]],
                     per_path |-> EmptyMap]],
      [market |-> ExampleMarket(T),
       features |-> [per_step |-> EmptyMap,
                     per_path |-> [f \in {"vol"} |-> [shape |-> <<NB>>]]]],
      \* bounds that violate ubnd >= lbnd and lbnd <= 0 at the last step
      [market |-> [ExampleMarket(T) EXCEPT !.lbnd_a.val = BadLbnd(T)],
       features |-> NoFeatures],
      \* mis-shaped fields
      [market |-> [ExampleMarket(T) EXCEPT !.hedges.shape = <<NB, T>>],
       features |-> NoFeatures],
      [market |-> [ExampleMarket(T) EXCEPT !.cost.shape = <<NB, T, NI + 1>>],
       features |-> NoFeatures],
      [market |-> [ExampleMarket(T) EXCEPT !.ubnd_a.shape = <<NB, T + 1, NI>>],
       features |-> NoFeatures],
      [market |-> [ExampleMarket(T) EXCEPT !.lbnd_a.shape = <<NB + 1, T, NI>>],
       features |-> NoFeatures],
      [market |-> [ExampleMarket(T) EXCEPT !.payoff.shape = <<NB, 2>>],
       features |-> NoFeatures],
      [market |-> ExampleMarket(T),
       features |-> [per_step |-> [f \in {"time_left"} |-> [shape |-> <<NB, T + 1>>]],
                     per_path |-> EmptyMap]],
      [market |-> ExampleMarket(T),
       features |-> [per_step |-> [f \in {"time_left"} |-> [shape |-> <<NB>>]],
                     per_path |-> EmptyMap]]
    } : T \in 1..MaxT }

\* ------------------------------------------------------------------------
\* _features
\* ------------------------------------------------------------------------

RECURSIVE Prod(_)
Prod(s) == IF s = <<>> THEN 1 ELSE s[1] * Prod(Tail(s))

\* base.tf_make_dim: flatten the trailing axes, or add axes of size 1
tf_make_dim(shape, dim) ==
    IF Len(shape) > dim
    THEN SubSeq(shape, 1, dim - 1) \o <<Prod(SubSeq(shape, dim, Len(shape)))>>
    ELSE shape \o [i \in 1..(dim - Len(shape)) |-> 1]

\* the per_step features the two _log.verify calls reject
BadStepFeatures(features_per_step_i, nSteps) ==
    { f \in DOMAIN features_per_step_i :
        \/ Len(features_per_step_i[f].shape) < 2
        \/ features_per_step_i[f].shape[2] # nSteps }

\* features_per_path is built by a set comprehension over the keys of
\* data['features']['per_path']: it is a set, holding one element per key,
\* and not a mapping from names to tensors
PerPathOf(features_per_path_i) ==
    [kind |-> "set", elems |-> DOMAIN features_per_path_i]

_features(d, nSteps) ==
    IF BadStepFeatures(d.features.per_step, nSteps) # {}
    THEN [fault |-> "shape: per_step feature", per_step |-> EmptyMap,
          per_path |-> PerPathOf(EmptyMap)]
    ELSE [fault    |-> "none",
          per_step |-> [f \in DOMAIN d.features.per_step |->
                          [shape |-> tf_make_dim(d.features.per_step[f].shape, 3)]],
          per_path |-> PerPathOf(d.features.per_path)]

\* { f:features_per_path[f] for f in features_per_path }: subscripting a set
\* raises TypeError as soon as there is an element to look up
PathLookupFails(fpp) == fpp.kind = "set" /\ fpp.elems # {}

\* ------------------------------------------------------------------------
\* Collaborators: the agent (agents.AgentFactory) and the utilities
\* (objectives.MonetaryUtility)
\* ------------------------------------------------------------------------

None == [kind |-> "None", id |-> 0]

\* self.agent.state_feature_name
state_feature_name == "recurrent_state"

RawZero(b, n) == Zero
RawHalf(b, n) == Fin(Scale \div 2)
RawBig(b, n)  == Fin(25 * Scale)
RawNaN(b, n)  == IF b = 1 /\ n = 1 THEN NaN ELSE Fin(Scale \div 2)
RawAlt(b, n)  == IF (b + n) % 2 = 0 THEN Fin(-3 * Scale) ELSE Fin(Scale \div 4)
RawRow(b, n)  == Fin(n * (Scale \div 2))

\* the actions an agent may return for a batch of B paths and N instruments:
\* [B,N] tensors, a [1,N] tensor and a mis-shaped [B,N+1] tensor
RawActions(B, N) ==
    { [shape |-> <<B, N>>, val |-> [b \in 1..B |-> [n \in 1..N |-> RawZero(b, n)]]],
      [shape |-> <<B, N>>, val |-> [b \in 1..B |-> [n \in 1..N |-> RawHalf(b, n)]]],
      [shape |-> <<B, N>>, val |-> [b \in 1..B |-> [n \in 1..N |-> RawBig(b, n)]]],
      [shape |-> <<B, N>>, val |-> [b \in 1..B |-> [n \in 1..N |-> RawNaN(b, n)]]],
      [shape |-> <<B, N>>, val |-> [b \in 1..B |-> [n \in 1..N |-> RawAlt(b, n)]]],
      [shape |-> <<1, N>>, val |-> [b \in 1..1 |-> [n \in 1..N |-> RawRow(b, n)]]],
      [shape |-> <<B, N + 1>>,
       val   |-> [b \in 1..B |-> [n \in 1..(N + 1) |-> RawZero(b, n)]]] }

\* the states an agent may return at step tt: a new state, or none
ReturnedStates(tt) == { None, [kind |-> "agent", id |-> tt + 1] }

\* objectives.MonetaryUtility: one value per path, from the gains and the
\* time-zero features; y stands for the instance's own parameters
MonetaryUtility(y, d) ==
    [b \in 1..Len(d.payoff) |->
        FAdd(FSub(FAdd(d.payoff[b], d.pnl[b]), d.cost[b]),
             Fin(y + Cardinality(DOMAIN d.features_time_0)))]

UtilityParam  == 0
Utility0Param == 7

\* ------------------------------------------------------------------------
\* build
\* ------------------------------------------------------------------------

Build ==
    /\ pc = "idle"
    /\ ~agent.bound
    /\ \E r \in BOOLEAN : agent' = [bound |-> TRUE, is_recurrent |-> r]
    /\ utility' = TRUE
    /\ UNCHANGED <<hard_clip, outer_clip, pc, fault, data, features_per_step,
                   features_per_path, pnl, cost, delta, action, actions, state,
                   t, live_features, agent_out, steps, calls, result,
                   clip_args, clip_ret>>

\* ------------------------------------------------------------------------
\* _call: entry, validation and the initial rollout state (lines 118-160)
\* ------------------------------------------------------------------------

nBatch == data.market.hedges.shape[1]
nSteps == data.market.hedges.shape[2]
nInst  == data.market.hedges.shape[3]

\* payoff[:,0] if payoff.shape.as_list() == [nBatch,1] else payoff
PayoffOf(d) ==
    IF d.market.payoff.shape = <<d.market.hedges.shape[1], 1>>
    THEN [shape |-> <<d.market.hedges.shape[1]>>,
          val   |-> [b \in 1..d.market.hedges.shape[1] |->
                        d.market.payoff.val[(b - 1) * 1 + 1]]]
    ELSE d.market.payoff

payoff == PayoffOf(data).val

\* the first check of the entry that fails, or "none"
EntryFault(d) ==
    IF ~agent.bound \/ ~utility THEN "AssertionError: build() not called"
    ELSE IF Len(d.market.hedges.shape) # 3 THEN "shape: hedges"
    ELSE LET geometry == d.market.hedges.shape
         IN  IF d.market.cost.shape # geometry THEN "shape: cost"
             ELSE IF d.market.ubnd_a.shape # geometry THEN "shape: ubnd_a"
             ELSE IF d.market.lbnd_a.shape # geometry THEN "shape: lbnd_a"
             ELSE IF PayoffOf(d).shape # <<geometry[1]>> THEN "shape: payoff"
             ELSE _features(d, geometry[2]).fault

\* self.agent.init_state(...) tiled over the batch, or tf.zeros_like(pnl)
InitialState ==
    IF agent.is_recurrent THEN [kind |-> "init", id |-> 0]
    ELSE [kind |-> "zeros", id |-> 0]

\* actions = tf.zeros_like( trading_cost[:,0,:][:,tf.newaxis,:] ): the history
\* is kept as the sequence of its [B,N] slices along axis 1
InitialActions(d) == << Zeros2(Slice(d.market.cost.val, 0)) >>

\* tf_make_dim is handed the keys of per_path, which are names and not
\* tensors: it may raise, or return something for the set to hold
KeyMakeDimRaises(d, raises) == raises /\ DOMAIN d.features.per_path # {}

Abort(msg) ==
    /\ pc' = "fault"
    /\ fault' = msg

Call ==
    /\ pc = "idle"
    /\ \E d \in Inputs, raises \in BOOLEAN :
        /\ data' = d
        /\ IF EntryFault(d) # "none" \/ KeyMakeDimRaises(d, raises)
           THEN /\ Abort(IF EntryFault(d) # "none" THEN EntryFault(d)
                         ELSE "AttributeError: tf_make_dim of a feature name")
                /\ UNCHANGED <<features_per_step, features_per_path, pnl, cost,
                               delta, action, actions, state, t>>
           ELSE /\ features_per_step' = _features(d, d.market.hedges.shape[2]).per_step
                /\ features_per_path' = _features(d, d.market.hedges.shape[2]).per_path
                /\ pnl'     = Zeros1(PayoffOf(d).val)
                /\ cost'    = Zeros1(PayoffOf(d).val)
                /\ delta'   = Zeros2(Slice(d.market.cost.val, 0))
                /\ action'  = Zeros2(Slice(d.market.cost.val, 0))
                /\ actions' = InitialActions(d)
                /\ state'   = InitialState
                /\ t'       = 0
                /\ pc'      = "loop"
                /\ fault'   = "none"
    /\ UNCHANGED <<hard_clip, outer_clip, agent, utility, live_features,
                   agent_out, steps, calls, result, clip_args, clip_ret>>

\* ------------------------------------------------------------------------
\* _call: one iteration of the main loop (lines 161-190)
\* ------------------------------------------------------------------------

\* dict( action, delta, cost, pnl ), updated with the per_path features, then
\* with the per_step features sliced at t, then 'delta' and 'action' set
\* again, then the recurrent state: for each name, where its value comes from
\* and the value (of a supplied feature, its shape)
LiveFeatures ==
    LET names == {"action", "delta", "cost", "pnl"}
                 \cup features_per_path.elems
                 \cup DOMAIN features_per_step
                 \cup (IF agent.is_recurrent THEN {state_feature_name} ELSE {})
    IN  [f \in names |->
            IF agent.is_recurrent /\ f = state_feature_name
            THEN [src |-> "state", val |-> state]
            ELSE IF f = "delta" THEN [src |-> "rollout", val |-> delta]
            ELSE IF f = "action" THEN [src |-> "rollout", val |-> action]
            ELSE IF f \in DOMAIN features_per_step
            THEN [src |-> "per_step",
                  val |-> [shape |-> << features_per_step[f].shape[1],
                                        features_per_step[f].shape[3] >>]]
            ELSE IF f \in features_per_path.elems
            THEN [src |-> "per_path", val |-> [shape |-> <<>>]]
            ELSE IF f = "cost" THEN [src |-> "rollout", val |-> cost]
            ELSE [src |-> "rollout", val |-> pnl]]

\* (variant: a returned none keeps the old state)
NextState_KeepOnNone(returned, old) ==
    IF agent.is_recurrent /\ returned # None THEN returned ELSE old

\* state = state_ if self.agent.is_recurrent else state
NextState(returned, old) == IF agent.is_recurrent THEN returned ELSE old

\* (variant: the first action appended to the initial zeros)
RecordAction_AlwaysConcat(history, action_, tt) == Append(history, action_)

\* actions = tf.concat( [actions,action_], axis=1 ) if t>0 else action_
RecordAction(history, action_, tt) ==
    IF tt > 0 THEN Append(history, action_) ELSE <<action_>>

\* cost += tf.reduce_sum( tf.math.abs( action ) * trading_cost[:,t,:], axis=1 )
CostAfter(c, act, tt) ==
    Add1(c, ReduceSum1(Mul2(Abs2(act), Slice(data.market.cost.val, tt))))

\* (variant: every step trades at the returns of step 0)
PnlAfter_FirstStep(p, act, tt) ==
    Add1(p, ReduceSum1(Mul2(act, Slice(data.market.hedges.val, 0))))

\* pnl += tf.reduce_sum( action * hedges[:,t,:], axis=1 )
PnlAfter(p, act, tt) ==
    Add1(p, ReduceSum1(Mul2(act, Slice(data.market.hedges.val, tt))))

Step ==
    /\ pc = "loop"
    /\ t < nSteps
    /\ IF PathLookupFails(features_per_path)
       THEN /\ Abort("TypeError: 'set' object is not subscriptable")
            /\ UNCHANGED <<live_features, agent_out, pnl, cost, delta, action,
                           actions, state, t, steps>>
       ELSE /\ live_features' = LiveFeatures
            /\ \E a \in RawActions(nBatch, nInst), s \in ReturnedStates(t) :
                LET clip == _clip_actions(a.val, Slice(data.market.lbnd_a.val, t),
                                          Slice(data.market.ubnd_a.val, t))
                IN  /\ agent_out' = [action |-> a, state_ |-> s]
                    /\ IF a.shape \notin { <<nBatch, nInst>>, <<1, nInst>> }
                       THEN /\ Abort("shape: action")
                            /\ UNCHANGED <<pnl, cost, delta, action, actions,
                                           state, t, steps>>
                       ELSE IF clip.fault # "none"
                       THEN /\ Abort(clip.fault)
                            /\ UNCHANGED <<pnl, cost, delta, action, actions,
                                           state, t, steps>>
                       ELSE /\ action'  = clip.act
                            /\ state'   = NextState(s, state)
                            /\ delta'   = Add2(delta, clip.act)
                            /\ actions' = RecordAction(actions, clip.act, t)
                            /\ cost'    = CostAfter(cost, clip.act, t)
                            /\ pnl'     = PnlAfter(pnl, clip.act, t)
                            /\ t'       = t + 1
                            /\ steps'   = Append(steps, [raw |-> a, act |-> clip.act])
                            /\ UNCHANGED <<pc, fault>>
    /\ UNCHANGED <<hard_clip, outer_clip, agent, utility, data, features_per_step,
                   features_per_path, calls, result, clip_args, clip_ret>>

\* ------------------------------------------------------------------------
\* _call: after the loop (lines 192-222)
\* ------------------------------------------------------------------------

\* (variant: pnl and cost not checked)
NumericsFault_Off(p, c) == "none"

\* the first tf.debugging.check_numerics that fails, or "none"
NumericsFault(p, c) ==
    IF ~AllFinite1(p) THEN "InvalidArgument: numerics pnl"
    ELSE IF ~AllFinite1(c) THEN "InvalidArgument: numerics cost"
    ELSE "none"

\* the per_path features and the per_step features at step 0, by name
FeaturesTime0 ==
    [f \in features_per_path.elems \cup DOMAIN features_per_step |->
        IF f \in DOMAIN features_per_step THEN "per_step" ELSE "per_path"]

UtilityData == [features_time_0 |-> FeaturesTime0, payoff |-> payoff,
                pnl |-> pnl, cost |-> cost]

Utility0Data == [features_time_0 |-> FeaturesTime0, payoff |-> payoff,
                 pnl |-> TimesZero1(pnl), cost |-> TimesZero1(cost)]

Bundle ==
    LET u  == MonetaryUtility(UtilityParam, UtilityData)
        u0 == MonetaryUtility(Utility0Param, Utility0Data)
    IN  [loss     |-> Sub1(Neg1(u), u0),
         utility  |-> u,
         utility0 |-> u0,
         gains    |-> Sub1(Add1(payoff, pnl), cost),
         payoff   |-> payoff,
         pnl      |-> pnl,
         cost     |-> cost,
         actions  |-> actions]

Finish ==
    /\ pc = "loop"
    /\ ~(t < nSteps)
    /\ IF NumericsFault(pnl, cost) # "none"
       THEN /\ Abort(NumericsFault(pnl, cost))
            /\ UNCHANGED <<calls, result>>
       ELSE IF PathLookupFails(features_per_path)
       THEN /\ Abort("TypeError: 'set' object is not subscriptable")
            /\ UNCHANGED <<calls, result>>
       ELSE /\ calls'  = [utility |-> UtilityData, utility0 |-> Utility0Data]
            /\ result' = Bundle
            /\ pc'     = "done"
            /\ UNCHANGED fault
    /\ UNCHANGED <<hard_clip, outer_clip, agent, utility, data, features_per_step,
                   features_per_path, pnl, cost, delta, action, actions, state, t,
                   live_features, agent_out, steps, clip_args, clip_ret>>

\* ------------------------------------------------------------------------
\* A direct call of _clip_actions on a [1,2] tensor
\* ------------------------------------------------------------------------

ClipRaws ==
    {NaN, PosInf, NegInf} \cup
    {Fin(x) : x \in {-25 * Scale, -3 * Scale, -Scale, -(Scale \div 2), 0,
                     Scale \div 2, Scale, 3 * Scale, 25 * Scale}}
ClipLower == {NegInf, NaN} \cup {Fin(x) : x \in {-2 * Scale, -Scale, 0, Scale}}
ClipUpper == {PosInf, NaN} \cup {Fin(x) : x \in {-Scale, 0, Scale, 2 * Scale}}
\* the second position varies over fewer cases
ClipSecond ==
    { <<Zero, Fin(-Scale), One>>, <<Fin(3 * Scale), Zero, Zero>>,
      <<NaN, Fin(-Scale), One>>, <<Zero, One, Zero>> }

ClipCall ==
    /\ clip_ret.fault = "not called"
    /\ \E a \in ClipRaws, l \in ClipLower, u \in ClipUpper, s \in ClipSecond :
          /\ clip_args' = [actions |-> << <<a, s[1]>> >>,
                           lbnd_a  |-> << <<l, s[2]>> >>,
                           ubnd_a  |-> << <<u, s[3]>> >>]
          /\ clip_ret'  = _clip_actions(clip_args'.actions, clip_args'.lbnd_a,
                                        clip_args'.ubnd_a)
    /\ UNCHANGED <<hard_clip, outer_clip, agent, utility, pc, fault, data,
                   features_per_step, features_per_path, pnl, cost, delta, action,
                   actions, state, t, live_features, agent_out, steps, calls,
                   result>>

\* ------------------------------------------------------------------------
\* Specifications
\* ------------------------------------------------------------------------

vars == <<hard_clip, outer_clip, agent, utility, pc, fault, data,
          features_per_step, features_per_path, pnl, cost, delta, action,
          actions, state, t, live_features, agent_out, steps, calls, result,
          clip_args, clip_ret>>

\* the state after __init__
Init ==
    /\ hard_clip \in BOOLEAN
    /\ outer_clip \in BOOLEAN
    /\ agent = [bound |-> FALSE, is_recurrent |-> FALSE]
    /\ utility = FALSE
    /\ pc = "idle"
    /\ fault = "none"
    /\ data = <<>>
    /\ features_per_step = EmptyMap
    /\ features_per_path = PerPathOf(EmptyMap)
    /\ pnl = <<>>
    /\ cost = <<>>
    /\ delta = <<>>
    /\ action = <<>>
    /\ actions = <<>>
    /\ state = None
    /\ t = 0
    /\ live_features = EmptyMap
    /\ agent_out = [action |-> [shape |-> <<>>, val |-> <<>>], state_ |-> None]
    /\ steps = <<>>
    /\ calls = <<>>
    /\ result = <<>>
    /\ clip_args = [actions |-> <<>>, lbnd_a |-> <<>>, ubnd_a |-> <<>>]
    /\ clip_ret = [fault |-> "not called", act |-> <<>>]

Next == Build \/ Call \/ Step \/ Finish

Spec == Init /\ [][Next]_vars

NextClip == ClipCall

SpecClip == Init /\ [][NextClip]_vars

\* ------------------------------------------------------------------------
\* Properties
\* ------------------------------------------------------------------------

ClipCalled   == clip_ret.fault # "not called"
ClipReturned == clip_ret.fault = "none"
ClipPositions == 1..Len(clip_args.lbnd_a[1])
ClipL(n) == clip_args.lbnd_a[1][n]
ClipU(n) == clip_args.ubnd_a[1][n]

\* what delta, pnl and cost are after exactly the first k finished iterations
RECURSIVE DeltaAfter(_)
DeltaAfter(k) ==
    IF k = 0 THEN Zeros2(Slice(data.market.cost.val, 0))
    ELSE Add2(DeltaAfter(k - 1), steps[k].act)
RECURSIVE PnlOfSteps(_)
PnlOfSteps(k) ==
    IF k = 0 THEN Zeros1(payoff)
    ELSE [b \in 1..nBatch |->
            FAdd(PnlOfSteps(k - 1)[b],
                 SumRow([n \in 1..nInst |->
                     FMul(steps[k].act[b][n], data.market.hedges.val[b][k][n])]))]
RECURSIVE CostOfSteps(_)
CostOfSteps(k) ==
    IF k = 0 THEN Zeros1(payoff)
    ELSE [b \in 1..nBatch |->
            FAdd(CostOfSteps(k - 1)[b],
                 SumRow([n \in 1..nInst |->
                     FMul(FAbs(steps[k].act[b][n]), data.market.cost.val[b][k][n])]))]

\* C1: at the start of iteration t the action history holds exactly t entries
\* (none before the first iteration), delta, pnl and cost are what steps
\* 0..t-1 made them, and a finished rollout has run the loop body exactly
\* nSteps times.
C1_LoopInvariant ==
    /\ pc = "loop" =>
          /\ Len(actions) = t
          /\ Len(steps) = t
          /\ delta = DeltaAfter(t)
          /\ pnl = PnlOfSteps(t)
          /\ cost = CostOfSteps(t)
    /\ pc = "done" => Len(steps) = nSteps

\* C2: an action returned by _clip_actions lies in [lbnd, ubnd] at every
\* position, in hard-clip mode and in soft-clip mode, for every raw action.
C2_BoundRespect ==
    ClipReturned =>
        \A n \in ClipPositions :
            /\ FLeq(ClipL(n), clip_ret.act[1][n])
            /\ FLeq(clip_ret.act[1][n], ClipU(n))

\* C3: where lbnd = ubnd, the action returned by _clip_actions is exactly 0,
\* for every raw action and in every clipping mode.
C3_DegenerateIsZero ==
    ClipReturned =>
        \A n \in ClipPositions :
            ClipL(n) = ClipU(n) => clip_ret.act[1][n] = Zero

BoundViolated(l, u) == FLess(u, l) \/ FLess(u, Zero) \/ FLess(Zero, l)

\* C4: a call of _clip_actions with ubnd < lbnd, ubnd < 0 or lbnd > 0 at any
\* position ends in an error and yields no action, in every clipping mode.
C4_BoundsChecked ==
    (ClipCalled /\ \E n \in ClipPositions : BoundViolated(ClipL(n), ClipU(n)))
        => (clip_ret.fault = "InvalidArgument: bounds" /\ clip_ret.act = <<>>)
C4_Witness ==
    /\ ClipCalled
    /\ hard_clip
    /\ ~BoundViolated(ClipL(1), ClipU(1))
    /\ BoundViolated(ClipL(2), ClipU(2))
    /\ clip_ret.fault = "InvalidArgument: bounds"

\* C5: once _features has returned, its second result maps every name of the
\* supplied per_path features to a rank-2 tensor, and every such name is in
\* the live features of a step and in the time-zero features.
C5_PerPathMapping ==
    (pc \in {"loop", "done"}) =>
        \A f \in DOMAIN data.features.per_path :
            /\ features_per_path.kind = "dict"
            /\ f \in features_per_path.elems
            /\ (t > 0 => f \in DOMAIN live_features)
            /\ (pc = "done" => f \in DOMAIN calls.utility0.features_time_0)

\* an iteration of the loop has just finished
IterationDone == pc = "loop" /\ pc' = "loop" /\ t' = t + 1

\* C6: after a step the tracked state is the returned state if the agent
\* returned one, and is otherwise what it was before the step.
C6_KeepStateOnNone ==
    [][IterationDone =>
          state' = IF agent_out'.state_ # None THEN agent_out'.state_ ELSE state]_vars

\* C6 (amended): after a step the tracked state of a recurrent agent is what
\* the agent returned, none included; that of a stateless agent is the
\* placeholder the rollout started with.
C6_ReplaceIffRecurrent ==
    [][IterationDone =>
          /\ agent.is_recurrent => state' = agent_out'.state_
          /\ ~agent.is_recurrent =>
                (state' = state /\ state' = [kind |-> "zeros", id |-> 0])]_vars
C6_Witness ==
    /\ pc = "loop"
    /\ t > 0
    /\ agent.is_recurrent
    /\ agent_out.state_ = None
    /\ state = None

IsZero2(x) == \A b \in 1..Len(x) : \A n \in 1..Len(x[b]) : x[b][n] = Zero
IsZero1(x) == \A b \in 1..Len(x) : x[b] = Zero
ZeroPolicy == \A k \in 1..Len(steps) : IsZero2(steps[k].raw.val)

\* C7: if the agent returns the zero action at every step, the rollout ends
\* with pnl = 0, cost = 0 and gains = payoff on every path, in every
\* clipping mode.
C7_ZeroActionRollout ==
    (pc = "done" /\ ZeroPolicy) =>
        /\ IsZero1(result.pnl)
        /\ IsZero1(result.cost)
        /\ result.gains = PayoffOf(data).val

\* C7 (amended): the same, in hard-clip mode.
C7_ZeroActionHardClip ==
    (pc = "done" /\ ZeroPolicy /\ hard_clip) =>
        /\ IsZero1(result.pnl)
        /\ IsZero1(result.cost)
        /\ result.gains = PayoffOf(data).val
C7_Witness ==
    /\ pc = "done"
    /\ ZeroPolicy
    /\ hard_clip
    /\ Len(steps) = MaxT
    /\ data.market.cost.val[1][1][1] # Zero

InputFeatureNames ==
    DOMAIN data.features.per_path \cup DOMAIN data.features.per_step
BaselineData ==
    [features_time_0 |-> [f \in InputFeatureNames |->
                            IF f \in DOMAIN data.features.per_step
                            THEN "per_step" ELSE "per_path"],
     payoff |-> PayoffOf(data).val,
     pnl    |-> [b \in 1..nBatch |-> Zero],
     cost   |-> [b \in 1..nBatch |-> Zero]]

\* C8: the data handed to utility0, and the utility0 reported, are determined
\* by the payoff and the features of the input alone: pnl and cost are zero
\* whatever the agent did, so two rollouts that share payoff and features
\* hand utility0 the same data and report the same utility0.
C8_BaselineIndependence ==
    pc = "done" =>
        /\ calls.utility0 = BaselineData
        /\ result.utility0 = MonetaryUtility(Utility0Param, BaselineData)
C8_Witness ==
    /\ pc = "done"
    /\ \E b \in 1..nBatch : pnl[b] # Zero /\ cost[b] # Zero
    /\ InputFeatureNames # {}

\* C9: the returned actions have shape [B,T,N] and their slice at step t is
\* the clipped action of step t; for T = 1 they are the single clipped
\* action, and pnl and cost are that step's contribution.
C9_ShapeClosure ==
    pc = "done" =>
        /\ Len(result.actions) = nSteps
        /\ \A k \in 1..Len(result.actions) :
              /\ result.actions[k] = steps[k].act
              /\ Len(result.actions[k]) = nBatch
              /\ \A b \in 1..nBatch : Len(result.actions[k][b]) = nInst
        /\ nSteps = 1 =>
              /\ result.actions = <<steps[1].act>>
              /\ result.pnl = PnlOfSteps(1)
              /\ result.cost = CostOfSteps(1)
C9_Witness ==
    /\ pc = "done"
    /\ nSteps = 1
    /\ steps[1].raw.shape = <<1, nInst>>
    /\ ~IsZero2(result.actions[1])

WellShaped(d) ==
    /\ Len(d.market.hedges.shape) = 3
    /\ d.market.cost.shape = d.market.hedges.shape
    /\ d.market.ubnd_a.shape = d.market.hedges.shape
    /\ d.market.lbnd_a.shape = d.market.hedges.shape
    /\ d.market.payoff.shape \in { <<d.market.hedges.shape[1]>>,
                                   <<d.market.hedges.shape[1], 1>> }
    /\ \A f \in DOMAIN d.features.per_step :
          /\ Len(d.features.per_step[f].shape) >= 2
          /\ d.features.per_step[f].shape[2] = d.market.hedges.shape[2]
BoundsMetAt(k) ==
    \A b \in 1..nBatch : \A n \in 1..nInst :
        ~BoundViolated(data.market.lbnd_a.val[b][k][n], data.market.ubnd_a.val[b][k][n])
Returned == DOMAIN result # {}
C10_StateInv ==
    /\ Returned <=> pc = "done"
    /\ pc = "done" <=> (pc \notin {"idle", "loop"} /\ fault = "none")
    /\ pc = "fault" <=> fault # "none"
    /\ pc = "done" =>
          /\ agent.bound /\ utility
          /\ WellShaped(data)
          /\ Len(steps) = nSteps
          /\ \A k \in 1..nSteps :
                /\ steps[k].raw.shape \in { <<nBatch, nInst>>, <<1, nInst>> }
                /\ BoundsMetAt(k)
          /\ AllFinite1(result.pnl) /\ AllFinite1(result.cost)
          /\ DOMAIN result = {"loss", "utility", "utility0", "gains", "payoff",
                              "pnl", "cost", "actions"}

\* C10: a bundle is returned exactly when no fault occurred: a rollout that
\* returned was built, had well-shaped inputs and actions, met the bounds at
\* every step and ended with finite pnl and cost; one that faulted returned
\* nothing, and takes no further step.
C10_Atomic == []C10_StateInv /\ [][pc # "fault"]_vars
C10_Witness ==
    /\ pc = "fault"
    /\ fault = "InvalidArgument: numerics pnl"
    /\ ~Returned

\* the loop has run to its end
AfterLoop == (pc = "loop" /\ ~(t < nSteps)) \/ pc = "done"

\* what _clip_actions makes of the raw action of step k under the bounds of
\* step k
ClippedAt(k, b, n) ==
    ClipElem(At(steps[k].raw.val, b, n),
             data.market.lbnd_a.val[b][k][n], data.market.ubnd_a.val[b][k][n])

\* sums over the steps 1..nSteps, and over the instruments within a step
SumOfActions(b, n) == SumRow([k \in 1..nSteps |-> steps[k].act[b][n]])
SumOfReturns(b) ==
    SumRow([k \in 1..nSteps |->
        SumRow([n \in 1..nInst |->
            FMul(steps[k].act[b][n], data.market.hedges.val[b][k][n])])])
SumOfCosts(b) ==
    SumRow([k \in 1..nSteps |->
        SumRow([n \in 1..nInst |->
            FMul(FAbs(steps[k].act[b][n]), data.market.cost.val[b][k][n])])])

\* the run of the end-to-end example: hard clip, raw action 0.5 at every step
ExampleRun ==
    /\ data = EndToEndExample
    /\ hard_clip
    /\ \A k \in 1..Len(steps) :
          steps[k].raw.val = [b \in 1..2 |-> [n \in 1..1 |-> Fin(Scale \div 2)]]

\* C11: after the loop, on every path, delta is the sum over the steps of the
\* clipped actions, pnl the sum over steps and instruments of action times
\* return, and cost the sum over steps and instruments of |action| times cost
\* rate, each step under its own bounds, returns and cost rates; the
\* end-to-end example (B=2, T=3, N=1, no cost, bounds [-1,1], returns 1 and 2,
\* raw action 0.5, hard clip) ends with delta 1.5, pnl 1.5 and 3.0, cost 0.
C11_Accumulation ==
    AfterLoop =>
        /\ Len(steps) = nSteps
        /\ \A k \in 1..nSteps : \A b \in 1..nBatch : \A n \in 1..nInst :
              steps[k].act[b][n] = ClippedAt(k, b, n)
        /\ \A b \in 1..nBatch :
              /\ \A n \in 1..nInst : delta[b][n] = SumOfActions(b, n)
              /\ pnl[b] = SumOfReturns(b)
              /\ cost[b] = SumOfCosts(b)
        /\ ExampleRun =>
              /\ \A k \in 1..3 : steps[k].act = << <<Fin(Scale \div 2)>>, <<Fin(Scale \div 2)>> >>
              /\ delta = << <<Fin(3 * (Scale \div 2))>>, <<Fin(3 * (Scale \div 2))>> >>
              /\ pnl = << Fin(3 * (Scale \div 2)), Fin(3 * Scale) >>
              /\ cost = << Zero, Zero >>
C11_Witness ==
    /\ pc = "done"
    /\ ExampleRun
    /\ result.pnl = << Fin(3 * (Scale \div 2)), Fin(3 * Scale) >>
    /\ Len(result.actions) = 3

\* the agent is called in the next step of the loop
AgentCalled == pc = "loop" /\ t < nSteps /\ ~PathLookupFails(features_per_path)

\* the rollout values that the steps 0..t-1 produced
RunningValues ==
    [action |-> IF t = 0 THEN Zeros2(Slice(data.market.cost.val, 0)) ELSE steps[t].act,
     delta  |-> DeltaAfter(t),
     cost   |-> CostOfSteps(t),
     pnl    |-> PnlOfSteps(t)]

\* the names 'action' and 'delta' carry the running values
HandedActionDelta ==
    \A f \in {"action", "delta"} :
        /\ f \in DOMAIN live_features'
        /\ live_features'[f].src = "rollout"
        /\ live_features'[f].val = RunningValues[f]

\* the names 'cost' and 'pnl' carry the running values
HandedCostPnl ==
    \A f \in {"cost", "pnl"} :
        /\ f \in DOMAIN live_features'
        /\ live_features'[f].src = "rollout"
        /\ live_features'[f].val = RunningValues[f]

\* the recurrent state is handed over exactly if the agent is recurrent
HandedState ==
    /\ (state_feature_name \in DOMAIN live_features') <=> agent.is_recurrent
    /\ agent.is_recurrent =>
          /\ live_features'[state_feature_name].src = "state"
          /\ live_features'[state_feature_name].val = state

\* C12: at every step t the mapping handed to the agent holds, under the
\* names 'action', 'delta', 'cost' and 'pnl', the running values that the
\* steps 0..t-1 produced (all zero at t = 0), whatever features were
\* supplied, a feature with one of these four names included; the recurrent
\* state is in it under the agent's state-feature name exactly if the agent
\* is recurrent.
C12_LiveFeatures ==
    [][AgentCalled => (HandedActionDelta /\ HandedCostPnl /\ HandedState)]_vars

====
